---- MODULE Spec2Model ----
(***************************************************************************)
(* Argument validators of mindspore/dataset/text/validators.py.            *)
(*                                                                         *)
(* Every validator is a decorator whose new_method binds the caller's      *)
(* positional and keyword arguments to the wrapped method's parameters,    *)
(* runs an ordered list of predicates that raise TypeError or ValueError,  *)
(* and then invokes the wrapped method.  A call is one state transition:   *)
(* the state before it holds the caller's arguments, the state after it    *)
(* holds the exception raised (if any), how many times the wrapped method  *)
(* ran, and the arguments the wrapped method received.                     *)
(***************************************************************************)
EXTENDS Integers, Sequences, FiniteSets, TLC

VARIABLES op, args, kwargs, pc, raised, calls, recv, round, first

vars == <<op, args, kwargs, pc, raised, calls, recv, round, first>>

(***************************************************************************)
(* Python values: a runtime type tag and a payload.  bool is a subclass of *)
(* int in Python, so a bool carries the payload 0 or 1 and isinstance(x,   *)
(* int) holds of it.  A list, a tuple and the items of a dict are          *)
(* sequences of values.                                                    *)
(*                                                                         *)
(* Python integers are unbounded; the validators compare them with         *)
(* INT32_MAX and UINT32_MAX.  An integer x is held as two limbs            *)
(* <<x \div 2^16, x % 2^16>>, compared limb by limb, so that the integers  *)
(* beyond both limits exist in the model.                                  *)
(***************************************************************************)
Limb == 2 ^ 16

\* The limbs of a small integer i.
Num(i) == <<i \div Limb, i % Limb>>

\* x + d for a small d.
Plus(x, d) == <<x[1] + ((x[2] + d) \div Limb), (x[2] + d) % Limb>>

\* x < y
Less(x, y) == x[1] < y[1] \/ (x[1] = y[1] /\ x[2] < y[2])

None == [t |-> "NoneType", v |-> 0]

PyInt(i) == [t |-> "int", v |-> Num(i)]

\* An int given by its limbs.
PyBig(x) == [t |-> "int", v |-> x]

PyBool(b) == [t |-> "bool", v |-> IF b THEN Num(1) ELSE Num(0)]

\* A float: the limbs of its floor and the number of halves above it (0 or 1).
PyFloat(x, halves) == [t |-> "float", v |-> <<x[1], x[2], halves>>]

\* The floor of a number, and the halves above it.
Floor(x) == <<x.v[1], x.v[2]>>

Halves(x) == IF x.t = "float" THEN x.v[3] ELSE 0

\* The values Python orders against an int: int, bool and float.
IsNumber(x) == x.t \in {"int", "bool", "float"}

\* value < bound, value > bound for a number and the limbs of an int.
Below(value, bound) == Less(Floor(value), bound)

Above(value, bound) == Less(bound, Floor(value)) \/ (Floor(value) = bound /\ Halves(value) > 0)

PyStr(s) == [t |-> "str", v |-> s]

PyList(s) == [t |-> "list", v |-> s]

PyTuple(s) == [t |-> "tuple", v |-> s]

PyDict(s) == [t |-> "dict", v |-> s]

VocabObj == [t |-> "Vocab", v |-> 0]

Function == [t |-> "function", v |-> 0]

MsType(name) == [t |-> "Type", v |-> name]

Enum(name) == [t |-> "Enum", v |-> name]

\* isinstance(x, types): bool is a subclass of int.
isinstance(x, types) == x.t \in types \/ (x.t = "bool" /\ "int" \in types)

\* len(x) of a list or a tuple.
len(x) == Len(x.v)

\* callable(x)
callable(x) == x.t = "function"

\* mstype.number_type: the number types of mindspore.common.dtype.
number_type ==
    {MsType(name) : name \in {"int8", "int16", "int32", "int64", "uint8", "uint16", "uint32", "uint64",
                              "float16", "float32", "float64"}}

\* 2^31 - 1
INT32_MAX == <<32767, 65535>>

\* 2^32 - 1
UINT32_MAX == <<65535, 65535>>

(***************************************************************************)
(* The result of a predicate: ok, or the exception it raises.  arg is the  *)
(* arg_name the message is built from (a format string with its index, or *)
(* the value where the code passes a value), detail the words the message *)
(* lists.                                                                  *)
(***************************************************************************)
Ok == [kind |-> "ok", arg |-> "", detail |-> {}]

TypeError(arg_name) == [kind |-> "TypeError", arg |-> arg_name, detail |-> {}]

ValueError(arg_name) == [kind |-> "ValueError", arg |-> arg_name, detail |-> {}]

ValueErrorWords(arg_name, words) == [kind |-> "ValueError", arg |-> arg_name, detail |-> words]

\* Statement sequencing: the second statement runs only if the first did not raise.
Then(r1, r2) == IF r1.kind # "ok" THEN r1 ELSE r2

\* The first exception of a sequence of results, Ok if there is none.
RECURSIVE FirstRaise(_)
FirstRaise(rs) ==
    IF rs = <<>> THEN Ok
    ELSE IF Head(rs).kind # "ok" THEN Head(rs) ELSE FirstRaise(Tail(rs))

(***************************************************************************)
(* ..core.validator_helpers (imported at validators.py:25).                *)
(***************************************************************************)
\* type_check: a bool does not pass for int unless bool is allowed too.
type_check(arg, types, arg_name) ==
    IF "int" \in types /\ "bool" \notin types /\ arg.t = "bool" THEN TypeError(arg_name)
    ELSE IF ~isinstance(arg, types) THEN TypeError(arg_name)
    ELSE Ok

\* type_check_list: type_check of every element, in order.
type_check_list(xs, types, arg_names) ==
    IF Len(xs) # Len(arg_names) THEN ValueError("arg_names")
    ELSE FirstRaise([i \in 1..Len(xs) |-> type_check(xs[i], types, arg_names[i])])

\* check_value: value < lo or value > hi raises ValueError.  The helper tests
\* no type: any number is compared (an int, a bool, a float), and comparing a
\* value that is no number with an int raises Python's TypeError.
check_value(value, lo, hi, arg_name) ==
    IF ~IsNumber(value) THEN TypeError(arg_name)
    ELSE IF Below(value, lo) \/ Above(value, hi) THEN ValueError(arg_name)
    ELSE Ok

\* check_positive: value <= 0 raises ValueError; no type is tested.
check_positive(value, arg_name) ==
    IF ~IsNumber(value) THEN TypeError(arg_name)
    ELSE IF ~Above(value, Num(0)) THEN ValueError(arg_name)
    ELSE Ok

\* check_uint32: an int (no bool) in [0, UINT32_MAX].
check_uint32(value, arg_name) ==
    Then(type_check(value, {"int"}, arg_name), check_value(value, Num(0), UINT32_MAX, arg_name))

(***************************************************************************)
(* Keyword arguments are an insertion-ordered dict: a sequence of          *)
(* <<name, value>> pairs with distinct names.                              *)
(***************************************************************************)
Keys(d) == {d[j][1] : j \in 1..Len(d)}

Get(d, name) == d[CHOOSE j \in 1..Len(d) : d[j][1] = name][2]

\* d[name] = value: in place when the key exists, appended otherwise.
SetItem(d, name, value) ==
    IF name \in Keys(d)
    THEN [j \in 1..Len(d) |-> IF d[j][1] = name THEN <<name, value>> ELSE d[j]]
    ELSE Append(d, <<name, value>>)

(***************************************************************************)
(* The wrapped methods' parameter lists (self excluded): name, whether the *)
(* parameter is required, and its default.                                  *)
(***************************************************************************)
Req(name) == [name |-> name, req |-> TRUE, dflt |-> None]

Opt(name, dflt) == [name |-> name, req |-> FALSE, dflt |-> dflt]

Sig(guard) ==
    CASE guard = "check_lookup" -> <<Req("vocab"), Opt("unknown_token", None)>>
      [] guard = "check_from_file" ->
            <<Req("file_path"), Opt("delimiter", PyStr("")), Opt("vocab_size", None),
              Opt("special_tokens", None), Opt("special_first", PyBool(TRUE))>>
      [] guard = "check_from_list" ->
            <<Req("word_list"), Opt("special_tokens", None), Opt("special_first", PyBool(TRUE))>>
      [] guard = "check_from_dict" -> <<Req("word_dict")>>
      [] guard = "check_from_dataset" ->
            <<Req("dataset"), Opt("columns", None), Opt("freq_range", None), Opt("top_k", None),
              Opt("special_tokens", None), Opt("special_first", PyBool(TRUE))>>
      [] guard = "check_jieba_init" ->
            <<Req("hmm_path"), Req("mp_path"), Opt("mode", Enum("MIX")),
              Opt("with_offsets", PyBool(FALSE))>>
      [] guard = "check_jieba_add_word" -> <<Req("word"), Opt("freq", None)>>
      [] guard = "check_jieba_add_dict" -> <<Req("user_dict")>>
      [] guard = "check_with_offsets" -> <<Opt("with_offsets", PyBool(FALSE))>>
      [] guard = "check_unicode_script_tokenizer" ->
            <<Opt("keep_whitespace", PyBool(FALSE)), Opt("with_offsets", PyBool(FALSE))>>
      [] guard = "check_wordpiece_tokenizer" ->
            <<Req("vocab"), Opt("suffix_indicator", PyStr("##")), Opt("max_bytes_per_token", PyInt(100)),
              Opt("unknown_token", PyStr("[UNK]")), Opt("with_offsets", PyBool(FALSE))>>
      [] guard = "check_regex_tokenizer" ->
            <<Req("delim_pattern"), Opt("keep_delim_pattern", PyStr("")),
              Opt("with_offsets", PyBool(FALSE))>>
      [] guard = "check_basic_tokenizer" ->
            <<Opt("lower_case", PyBool(FALSE)), Opt("keep_whitespace", PyBool(FALSE)),
              Opt("normalization_form", Enum("NONE")), Opt("preserve_unused_token", PyBool(TRUE)),
              Opt("with_offsets", PyBool(FALSE))>>
      [] guard = "check_bert_tokenizer" ->
            <<Req("vocab"), Opt("suffix_indicator", PyStr("##")), Opt("max_bytes_per_token", PyInt(100)),
              Opt("unknown_token", PyStr("[UNK]")), Opt("lower_case", PyBool(FALSE)),
              Opt("keep_whitespace", PyBool(FALSE)), Opt("normalization_form", Enum("NONE")),
              Opt("preserve_unused_token", PyBool(TRUE)), Opt("with_offsets", PyBool(FALSE))>>
      [] guard = "check_ngram" ->
            <<Req("n"), Opt("left_pad", PyTuple(<<PyStr(""), PyInt(0)>>)),
              Opt("right_pad", PyTuple(<<PyStr(""), PyInt(0)>>)), Opt("separator", PyStr(" "))>>
      [] guard = "check_pair_truncate" -> <<Req("max_length")>>
      [] guard = "check_to_number" -> <<Req("data_type")>>
      [] guard = "check_python_tokenizer" -> <<Req("tokenizer")>>

ParamIndex(sig, name) == CHOOSE i \in 1..Len(sig) : sig[i].name = name

\* parse_user_args: inspect.signature(method).bind(*args, **kwargs), apply_defaults(),
\* then the values in declared order.  bind raises when there are too many
\* positional arguments, an unexpected keyword, two values for one parameter or
\* a required parameter without a value.
parse_user_args(sig, a, kw) ==
    LET names == {sig[i].name : i \in 1..Len(sig)}
        bad == \/ Len(a) > Len(sig)
               \/ \E j \in 1..Len(kw) : kw[j][1] \notin names
               \/ \E j \in 1..Len(kw) : kw[j][1] \in names /\ ParamIndex(sig, kw[j][1]) <= Len(a)
               \/ \E i \in 1..Len(sig) : i > Len(a) /\ sig[i].req /\ sig[i].name \notin Keys(kw)
    IN  IF bad THEN [ok |-> FALSE, vals |-> <<>>]
        ELSE [ok |-> TRUE,
              vals |-> [i \in 1..Len(sig) |->
                          IF i <= Len(a) THEN a[i]
                          ELSE IF sig[i].name \in Keys(kw) THEN Get(kw, sig[i].name)
                          ELSE sig[i].dflt]]

BindError == TypeError("signature")


(***************************************************************************)
(* check_unique_list_of_words: words is a list, each element a str, no     *)
(* word twice.  The loop raises at the first element that is no str or    *)
(* that an earlier element equals.                                         *)
(***************************************************************************)
check_unique_list_of_words(words, arg_name) ==
    Then(type_check(words, {"list"}, arg_name),
         FirstRaise([i \in 1..len(words) |->
            Then(type_check(words.v[i], {"str"}, arg_name),
                 IF \E j \in 1..(i - 1) : words.v[j] = words.v[i]
                 THEN ValueErrorWords(arg_name, {words.v[i].v})
                 ELSE Ok)]))

\* The words_set check_unique_list_of_words returns.
words_set(words) == {words.v[i].v : i \in 1..len(words)}

(***************************************************************************)
(* The predicates of each validator, on the bound values b (in declared    *)
(* order), up to the call of the wrapped method.                           *)
(***************************************************************************)
lookup_predicates(b) ==
    LET vocab == b[1]
        unknown_token == b[2]
    IN  Then(IF unknown_token # None THEN type_check(unknown_token, {"str"}, "unknown_token") ELSE Ok,
             type_check(vocab, {"Vocab"}, "vocab is not an instance of cde.Vocab."))

from_file_predicates(b) ==
    LET file_path == b[1]
        delimiter == b[2]
        vocab_size == b[3]
        special_tokens == b[4]
        special_first == b[5]
    IN  Then(IF special_tokens # None
             THEN check_unique_list_of_words(special_tokens, "special_tokens") ELSE Ok,
        Then(type_check_list(<<file_path, delimiter>>, {"str"}, <<"file_path", "delimiter">>),
        Then(IF vocab_size # None THEN check_value(vocab_size, Num(-1), INT32_MAX, "vocab_size") ELSE Ok,
             type_check(special_first, {"bool"}, special_first))))

\* from_list_predicates without the comparison of the two word sets.
from_list_predicates_no_intersection(b) ==
    LET word_list == b[1]
        special_tokens == b[2]
        special_first == b[3]
    IN  Then(check_unique_list_of_words(word_list, "word_list"),
        Then(IF special_tokens # None
             THEN check_unique_list_of_words(special_tokens, "special_tokens")
             ELSE Ok,
             type_check(special_first, {"bool"}, "special_first")))

from_list_predicates(b) ==
    LET word_list == b[1]
        special_tokens == b[2]
        special_first == b[3]
        intersect == words_set(word_list) \cap words_set(special_tokens)
    IN  Then(check_unique_list_of_words(word_list, "word_list"),
        Then(IF special_tokens # None
             THEN Then(check_unique_list_of_words(special_tokens, "special_tokens"),
                       IF intersect # {}
                       THEN ValueErrorWords("special_tokens and word_list", intersect)
                       ELSE Ok)
             ELSE Ok,
             type_check(special_first, {"bool"}, "special_first")))

from_dict_predicates(b) ==
    LET word_dict == b[1]
    IN  Then(type_check(word_dict, {"dict"}, "word_dict"),
             FirstRaise([i \in 1..len(word_dict) |->
                Then(type_check(word_dict.v[i][1], {"str"}, "word"),
                Then(type_check(word_dict.v[i][2], {"int"}, "word_id"),
                     check_value(word_dict.v[i][2], Num(0), INT32_MAX, "word_id")))]))

\* The local variable columns after the coercion of validators.py:297-299.
from_dataset_columns(columns) ==
    IF columns # None /\ ~isinstance(columns, {"list"}) THEN PyList(<<columns>>) ELSE columns

from_dataset_predicates(b) ==
    LET columns == b[2]
        freq_range == b[3]
        top_k == b[4]
        special_tokens == b[5]
        special_first == b[6]
    IN  Then(IF columns # None /\ ~isinstance(columns, {"list"})
             THEN type_check_list(from_dataset_columns(columns).v, {"str"}, <<"col_0">>)
             ELSE Ok,
        Then(IF freq_range # None
             THEN Then(type_check(freq_range, {"tuple"}, "freq_range"),
                  Then(IF len(freq_range) # 2 THEN ValueError("freq_range") ELSE Ok,
                  Then(FirstRaise([i \in 1..len(freq_range) |->
                          IF freq_range.v[i] # None /\ ~isinstance(freq_range.v[i], {"int"})
                          THEN ValueError("freq_range") ELSE Ok]),
                       IF isinstance(freq_range.v[1], {"int"}) /\ isinstance(freq_range.v[2], {"int"})
                       THEN IF Less(freq_range.v[2].v, freq_range.v[1].v) \/ Less(freq_range.v[1].v, Num(0))
                            THEN ValueError("frequency range") ELSE Ok
                       ELSE Ok)))
             ELSE Ok,
        Then(type_check(top_k, {"int", "NoneType"}, "top_k"),
        Then(IF isinstance(top_k, {"int"}) THEN check_positive(top_k, "top_k") ELSE Ok,
        Then(type_check(special_first, {"bool"}, "special_first"),
             IF special_tokens # None
             THEN check_unique_list_of_words(special_tokens, "special_tokens") ELSE Ok)))))

jieba_init_predicates(b) ==
    LET hmm_path == b[1]
        mp_path == b[2]
        with_offsets == b[4]
    IN  IF hmm_path = None THEN ValueError("hmm_path")
        ELSE IF ~isinstance(hmm_path, {"str"}) THEN TypeError("hmm_path")
        ELSE IF mp_path = None THEN ValueError("mp_path")
        ELSE IF ~isinstance(mp_path, {"str"}) THEN TypeError("mp_path")
        ELSE IF ~isinstance(with_offsets, {"bool"}) THEN TypeError("with_offsets")
        ELSE Ok

jieba_add_word_predicates(b) ==
    LET word == b[1]
        freq == b[2]
    IN  IF word = None THEN ValueError("word")
        ELSE IF freq # None THEN check_uint32(freq, "")
        ELSE Ok

\* check_jieba_add_dict and check_pair_truncate: binding only.
no_predicates(b) == Ok

with_offsets_predicates(b) ==
    IF ~isinstance(b[1], {"bool"}) THEN TypeError("with_offsets") ELSE Ok

unicode_script_tokenizer_predicates(b) ==
    IF ~isinstance(b[1], {"bool"}) THEN TypeError("keep_whitespace")
    ELSE IF ~isinstance(b[2], {"bool"}) THEN TypeError("with_offsets")
    ELSE Ok

wordpiece_tokenizer_predicates(b) ==
    LET vocab == b[1]
        suffix_indicator == b[2]
        max_bytes_per_token == b[3]
        unknown_token == b[4]
        with_offsets == b[5]
    IN  IF vocab = None THEN ValueError("vocab")
        ELSE IF ~isinstance(vocab, {"Vocab"}) THEN TypeError("vocab")
        ELSE IF ~isinstance(suffix_indicator, {"str"}) THEN TypeError("suffix_indicator")
        ELSE IF ~isinstance(unknown_token, {"str"}) THEN TypeError("unknown_token")
        ELSE IF ~isinstance(with_offsets, {"bool"}) THEN TypeError("with_offsets")
        ELSE check_uint32(max_bytes_per_token, "")

regex_tokenizer_predicates(b) ==
    LET delim_pattern == b[1]
        keep_delim_pattern == b[2]
        with_offsets == b[3]
    IN  IF delim_pattern = None THEN ValueError("delim_pattern")
        ELSE IF ~isinstance(delim_pattern, {"str"}) THEN TypeError("delim_pattern")
        ELSE IF ~isinstance(keep_delim_pattern, {"str"}) THEN TypeError("keep_delim_pattern")
        ELSE IF ~isinstance(with_offsets, {"bool"}) THEN TypeError("with_offsets")
        ELSE Ok

basic_tokenizer_predicates(b) ==
    LET lower_case == b[1]
        keep_whitespace == b[2]
        preserve_unused == b[4]
        with_offsets == b[5]
    IN  IF ~isinstance(lower_case, {"bool"}) THEN TypeError("lower_case")
        ELSE IF ~isinstance(keep_whitespace, {"bool"}) THEN TypeError("keep_whitespace")
        ELSE IF ~isinstance(preserve_unused, {"bool"}) THEN TypeError("preserve_unused_token")
        ELSE IF ~isinstance(with_offsets, {"bool"}) THEN TypeError("with_offsets")
        ELSE Ok

\* bert_tokenizer_predicates without the check of preserve_unused_token.
bert_tokenizer_predicates_no_preserve_check(b) ==
    LET vocab == b[1]
        suffix_indicator == b[2]
        max_bytes_per_token == b[3]
        unknown_token == b[4]
        lower_case == b[5]
        keep_whitespace == b[6]
        with_offsets == b[9]
    IN  IF vocab = None THEN ValueError("vocab")
        ELSE IF ~isinstance(vocab, {"Vocab"}) THEN TypeError("vocab")
        ELSE IF ~isinstance(suffix_indicator, {"str"}) THEN TypeError("suffix_indicator")
        ELSE IF ~isinstance(max_bytes_per_token, {"int"}) THEN TypeError("max_bytes_per_token")
        ELSE Then(check_uint32(max_bytes_per_token, ""),
             IF ~isinstance(unknown_token, {"str"}) THEN TypeError("unknown_token")
             ELSE IF ~isinstance(lower_case, {"bool"}) THEN TypeError("lower_case")
             ELSE IF ~isinstance(keep_whitespace, {"bool"}) THEN TypeError("keep_whitespace")
             ELSE IF ~isinstance(with_offsets, {"bool"}) THEN TypeError("with_offsets")
             ELSE Ok)

bert_tokenizer_predicates(b) ==
    LET vocab == b[1]
        suffix_indicator == b[2]
        max_bytes_per_token == b[3]
        unknown_token == b[4]
        lower_case == b[5]
        keep_whitespace == b[6]
        preserve_unused_token == b[8]
        with_offsets == b[9]
    IN  IF vocab = None THEN ValueError("vocab")
        ELSE IF ~isinstance(vocab, {"Vocab"}) THEN TypeError("vocab")
        ELSE IF ~isinstance(suffix_indicator, {"str"}) THEN TypeError("suffix_indicator")
        ELSE IF ~isinstance(max_bytes_per_token, {"int"}) THEN TypeError("max_bytes_per_token")
        ELSE Then(check_uint32(max_bytes_per_token, ""),
             IF ~isinstance(unknown_token, {"str"}) THEN TypeError("unknown_token")
             ELSE IF ~isinstance(lower_case, {"bool"}) THEN TypeError("lower_case")
             ELSE IF ~isinstance(keep_whitespace, {"bool"}) THEN TypeError("keep_whitespace")
             ELSE IF ~isinstance(preserve_unused_token, {"bool"}) THEN TypeError("preserve_unused_token")
             ELSE IF ~isinstance(with_offsets, {"bool"}) THEN TypeError("with_offsets")
             ELSE Ok)

\* The local variable n after validators.py:339-340.
ngram_n(n) == IF isinstance(n, {"int"}) THEN PyList(<<n>>) ELSE n

\* isinstance(pad, tuple) and len(pad) == 2 and isinstance(pad[0], str) and isinstance(pad[1], int)
ngram_pad_shape(pad) ==
    /\ isinstance(pad, {"tuple"})
    /\ len(pad) = 2
    /\ isinstance(pad.v[1], {"str"})
    /\ isinstance(pad.v[2], {"int"})

\* ngram_predicates with a pad width of 0 refused (> 0 in place of >= 0).
ngram_predicates_positive_width(b) ==
    LET n == ngram_n(b[1])
        left_pad == b[2]
        right_pad == b[3]
        separator == b[4]
    IN  IF ~(isinstance(n, {"list"}) /\ n # PyList(<<>>)) THEN ValueError("n")
        ELSE Then(FirstRaise([i \in 1..len(n) |->
                     Then(type_check(n.v[i], {"int"}, <<"gram[{0}]", i - 1>>),
                          check_positive(n.v[i], <<"gram_{}", i - 1>>))]),
             IF ~ngram_pad_shape(left_pad) THEN ValueError("left_pad")
             ELSE IF ~ngram_pad_shape(right_pad) THEN ValueError("right_pad")
             ELSE IF ~(Less(Num(0), left_pad.v[2].v) /\ Less(Num(0), right_pad.v[2].v))
                  THEN ValueError("padding width")
             ELSE type_check(separator, {"str"}, "separator"))

ngram_predicates(b) ==
    LET n == ngram_n(b[1])
        left_pad == b[2]
        right_pad == b[3]
        separator == b[4]
    IN  IF ~(isinstance(n, {"list"}) /\ n # PyList(<<>>)) THEN ValueError("n")
        ELSE Then(FirstRaise([i \in 1..len(n) |->
                     Then(type_check(n.v[i], {"int"}, <<"gram[{0}]", i - 1>>),
                          check_positive(n.v[i], <<"gram_{}", i - 1>>))]),
             IF ~ngram_pad_shape(left_pad) THEN ValueError("left_pad")
             ELSE IF ~ngram_pad_shape(right_pad) THEN ValueError("right_pad")
             ELSE IF ~(~Less(left_pad.v[2].v, Num(0)) /\ ~Less(right_pad.v[2].v, Num(0)))
                  THEN ValueError("padding width")
             ELSE type_check(separator, {"str"}, "separator"))

\* ngram_kwargs that writes back the n of the caller, not the list.
ngram_kwargs_unnormalized_n(kw, b) ==
    SetItem(SetItem(SetItem(SetItem(kw, "n", b[1]), "left_pad", b[2]), "right_pad", b[3]),
            "separator", b[4])

\* kwargs after validators.py:362-365.
ngram_kwargs(kw, b) ==
    SetItem(SetItem(SetItem(SetItem(kw, "n", ngram_n(b[1])), "left_pad", b[2]), "right_pad", b[3]),
            "separator", b[4])

to_number_predicates(b) ==
    LET data_type == b[1]
    IN  Then(type_check(data_type, {"Type"}, "data_type"),
             IF data_type \notin number_type THEN TypeError("data_type") ELSE Ok)

python_tokenizer_predicates(b) ==
    IF ~callable(b[1]) THEN TypeError("tokenizer") ELSE Ok


(***************************************************************************)
(* new_method.  A validator that rewrites nothing ends with                *)
(* "return method(self, *args, **kwargs)": the wrapped method runs once,   *)
(* with the caller's arguments, unless binding or a predicate raised.      *)
(***************************************************************************)
NoCall == [args |-> <<>>, kwargs |-> <<>>]

\* method(self, *a, **kw) is reached and runs.
Invoke(a, kw) ==
    /\ calls' = calls + 1
    /\ recv' = [args |-> a, kwargs |-> kw]
    /\ raised' = Ok
    /\ pc' = "returned"
    /\ UNCHANGED <<op, args, kwargs, round, first>>

\* An exception leaves new_method before the wrapped method is reached.
Raise(r) ==
    /\ raised' = r
    /\ pc' = "returned"
    /\ UNCHANGED <<op, args, kwargs, calls, recv, round, first>>

\* The verdict of binding followed by the predicates.
Verdict(guard, a, kw) ==
    LET bound == parse_user_args(Sig(guard), a, kw)
        b == bound.vals
    IN  IF ~bound.ok THEN BindError
        ELSE CASE guard = "check_lookup" -> lookup_predicates(b)
               [] guard = "check_from_file" -> from_file_predicates(b)
               [] guard = "check_from_list" -> from_list_predicates(b)
               [] guard = "check_from_dict" -> from_dict_predicates(b)
               [] guard = "check_from_dataset" -> from_dataset_predicates(b)
               [] guard = "check_jieba_init" -> jieba_init_predicates(b)
               [] guard = "check_jieba_add_word" -> jieba_add_word_predicates(b)
               [] guard = "check_jieba_add_dict" -> no_predicates(b)
               [] guard = "check_with_offsets" -> with_offsets_predicates(b)
               [] guard = "check_unicode_script_tokenizer" -> unicode_script_tokenizer_predicates(b)
               [] guard = "check_wordpiece_tokenizer" -> wordpiece_tokenizer_predicates(b)
               [] guard = "check_regex_tokenizer" -> regex_tokenizer_predicates(b)
               [] guard = "check_basic_tokenizer" -> basic_tokenizer_predicates(b)
               [] guard = "check_bert_tokenizer" -> bert_tokenizer_predicates(b)
               [] guard = "check_ngram" -> ngram_predicates(b)
               [] guard = "check_pair_truncate" -> no_predicates(b)
               [] guard = "check_to_number" -> to_number_predicates(b)
               [] guard = "check_python_tokenizer" -> python_tokenizer_predicates(b)

\* new_method that reaches the wrapped method although a predicate raised.
new_method_invokes_despite_raise(guard) ==
    LET r == Verdict(guard, args, kwargs)
    IN  IF r.kind = "ok" THEN Invoke(args, kwargs)
        ELSE /\ calls' = calls + 1
             /\ recv' = [args |-> args, kwargs |-> kwargs]
             /\ raised' = r
             /\ pc' = "returned"
             /\ UNCHANGED <<op, args, kwargs, round, first>>

\* new_method that forwards the bound values by keyword, as check_ngram does.
new_method_forwards_bound_values(guard) ==
    LET r == Verdict(guard, args, kwargs)
        sig == Sig(guard)
        b == parse_user_args(sig, args, kwargs).vals
    IN  IF r.kind = "ok"
        THEN Invoke(<<>>, [i \in 1..Len(sig) |-> <<sig[i].name, b[i]>>])
        ELSE Raise(r)

\* new_method of a validator that forwards *args and **kwargs as they came.
new_method(guard) ==
    LET r == Verdict(guard, args, kwargs)
    IN  IF r.kind = "ok" THEN Invoke(args, kwargs) ELSE Raise(r)

check_lookup ==
    /\ pc = "called"
    /\ op = "check_lookup"
    /\ new_method("check_lookup")

check_from_file ==
    /\ pc = "called"
    /\ op = "check_from_file"
    /\ new_method("check_from_file")

check_from_list ==
    /\ pc = "called"
    /\ op = "check_from_list"
    /\ new_method("check_from_list")

check_from_dict ==
    /\ pc = "called"
    /\ op = "check_from_dict"
    /\ new_method("check_from_dict")

check_from_dataset ==
    /\ pc = "called"
    /\ op = "check_from_dataset"
    /\ new_method("check_from_dataset")

check_jieba_init ==
    /\ pc = "called"
    /\ op = "check_jieba_init"
    /\ new_method("check_jieba_init")

check_jieba_add_word ==
    /\ pc = "called"
    /\ op = "check_jieba_add_word"
    /\ new_method("check_jieba_add_word")

check_jieba_add_dict ==
    /\ pc = "called"
    /\ op = "check_jieba_add_dict"
    /\ new_method("check_jieba_add_dict")

check_with_offsets ==
    /\ pc = "called"
    /\ op = "check_with_offsets"
    /\ new_method("check_with_offsets")

check_unicode_script_tokenizer ==
    /\ pc = "called"
    /\ op = "check_unicode_script_tokenizer"
    /\ new_method("check_unicode_script_tokenizer")

check_wordpiece_tokenizer ==
    /\ pc = "called"
    /\ op = "check_wordpiece_tokenizer"
    /\ new_method("check_wordpiece_tokenizer")

check_regex_tokenizer ==
    /\ pc = "called"
    /\ op = "check_regex_tokenizer"
    /\ new_method("check_regex_tokenizer")

check_basic_tokenizer ==
    /\ pc = "called"
    /\ op = "check_basic_tokenizer"
    /\ new_method("check_basic_tokenizer")

check_bert_tokenizer ==
    /\ pc = "called"
    /\ op = "check_bert_tokenizer"
    /\ new_method("check_bert_tokenizer")

check_pair_truncate ==
    /\ pc = "called"
    /\ op = "check_pair_truncate"
    /\ new_method("check_pair_truncate")

check_to_number ==
    /\ pc = "called"
    /\ op = "check_to_number"
    /\ new_method("check_to_number")

check_python_tokenizer ==
    /\ pc = "called"
    /\ op = "check_python_tokenizer"
    /\ new_method("check_python_tokenizer")

\* check_ngram ends with "return method(self, **kwargs)" after writing n,
\* left_pad, right_pad and separator into kwargs: the positional arguments
\* are not forwarded.
check_ngram ==
    /\ pc = "called"
    /\ op = "check_ngram"
    /\ LET r == Verdict("check_ngram", args, kwargs)
           b == parse_user_args(Sig("check_ngram"), args, kwargs).vals
       IN  IF r.kind = "ok" THEN Invoke(<<>>, ngram_kwargs(kwargs, b)) ELSE Raise(r)

\* The caller hands the bundle the wrapped method received to the same
\* validator once more.
CallAgain ==
    /\ pc = "returned"
    /\ calls = 1
    /\ round = 0
    /\ args' = recv.args
    /\ kwargs' = recv.kwargs
    /\ first' = recv
    /\ recv' = NoCall
    /\ calls' = 0
    /\ round' = 1
    /\ pc' = "called"
    /\ UNCHANGED <<op, raised>>


(***************************************************************************)
(* The calls a caller can make.  A call is built from one value (or        *)
(* Omitted) per parameter and a shape: how many leading parameters are     *)
(* passed positionally (the rest by keyword), and whether the call has a   *)
(* defect in its shape.                                                    *)
(***************************************************************************)
Omitted == [t |-> "omitted", v |-> 0]

Min(a, b) == IF a < b THEN a ELSE b

SeqsUpTo(S, n) == UNION {[1..m -> S] : m \in 0..n}

Reverse(sq) == [j \in 1..Len(sq) |-> sq[Len(sq) + 1 - j]]

MkCall(guard, vals, split, defect) ==
    LET sig == Sig(guard)
        k == Len(sig)
        firstOmitted == IF \E i \in 1..k : vals[i] = Omitted
                        THEN CHOOSE i \in 1..k : vals[i] = Omitted /\ \A j \in 1..(i - 1) : vals[j] # Omitted
                        ELSE k + 1
        npos == Min(split, firstOmitted - 1)
        byKeyword == SelectSeq([i \in 1..k |-> i], LAMBDA i : i > npos /\ vals[i] # Omitted)
        kw == [j \in 1..Len(byKeyword) |-> <<sig[byKeyword[j]].name, vals[byKeyword[j]]>>]
    IN  [op |-> guard,
         args |-> IF defect = "extra_positional" THEN Append(SubSeq(vals, 1, npos), PyInt(7))
                  ELSE SubSeq(vals, 1, npos),
         kwargs |-> IF defect = "unexpected_keyword" THEN Append(kw, <<"bogus", None>>)
                    ELSE IF defect = "reversed_keywords" THEN Reverse(kw)
                    ELSE kw]

Shapes(guard) ==
    {<<0, "none">>, <<1, "none">>, <<Len(Sig(guard)), "none">>, <<0, "reversed_keywords">>,
     <<0, "unexpected_keyword">>, <<Len(Sig(guard)), "extra_positional">>}

Calls(guard, inputs) == {MkCall(guard, in, sh[1], sh[2]) : in \in inputs, sh \in Shapes(guard)}

InitCalls(callset) ==
    \E c \in callset :
        /\ op = c.op
        /\ args = c.args
        /\ kwargs = c.kwargs
        /\ pc = "called"
        /\ raised = Ok
        /\ calls = 0
        /\ recv = NoCall
        /\ round = 0
        /\ first = NoCall

(***************************************************************************)
(* Bounds of the enumerated arguments.                                     *)
(***************************************************************************)
\* Longest word_list.
MaxWords == 3

\* Longest special_tokens list.
MaxTokens == 2

\* Longest list n of check_ngram.
MaxGrams == 2

\* Largest small integer tried as a gram, a pad width or a frequency.
MaxInt == 3

\* How far around each end of a checked range the integers are tried.
Slack == 2

SmallInts == {PyInt(i) : i \in -1..MaxInt}

(***************************************************************************)
(* check_ngram calls.                                                      *)
(***************************************************************************)
GramElems == {PyInt(i) : i \in 0..MaxInt} \cup {PyBool(TRUE), PyStr("a")}

NgramN ==
    {Omitted, None, PyStr("a"), PyBool(TRUE), PyTuple(<<PyInt(1)>>)} \cup SmallInts
        \cup {PyList(g) : g \in SeqsUpTo(GramElems, MaxGrams)}

Pads ==
    {PyTuple(<<PyStr("<s>"), w>>) : w \in SmallInts \cup {PyBool(TRUE), PyStr("a")}}
        \cup {None, PyTuple(<<PyInt(1), PyInt(1)>>), PyTuple(<<PyStr("<s>")>>),
              PyTuple(<<PyStr("<s>"), PyInt(1), PyInt(1)>>), PyList(<<PyStr("<s>"), PyInt(1)>>)}

NgramInputs ==
    {<<n, l, r, sep>> : n \in NgramN, l \in Pads \cup {Omitted},
                        r \in {Omitted, None, PyTuple(<<PyStr("</s>"), PyInt(-1)>>),
                               PyTuple(<<PyStr("</s>"), PyInt(1)>>)},
                        sep \in {Omitted, PyStr("-"), PyInt(1)}}

InitNgram == InitCalls(Calls("check_ngram", NgramInputs))

NextNgram == check_ngram \/ CallAgain

SpecNgram == InitNgram /\ [][NextNgram]_vars

(***************************************************************************)
(* check_from_dataset calls.                                               *)
(***************************************************************************)
DatasetObj == [t |-> "Dataset", v |-> 0]

Columns ==
    {Omitted, None, PyStr("a"), PyInt(1), PyList(<<>>), PyList(<<PyStr("a")>>),
     PyList(<<PyStr("a"), PyStr("b")>>), PyList(<<PyInt(1)>>), PyList(<<PyStr("a"), PyInt(1)>>),
     PyList(<<None>>)}

FreqElems == SmallInts \cup {PyInt(5), None, PyBool(TRUE), PyStr("a")}

FreqRanges ==
    {Omitted, None, PyInt(1), PyList(<<PyInt(0), PyInt(1)>>), PyTuple(<<>>),
     PyTuple(<<PyInt(1), PyInt(2), PyInt(3)>>)}
        \cup {PyTuple(<<lo>>) : lo \in FreqElems}
        \cup {PyTuple(<<lo, hi>>) : lo \in FreqElems, hi \in FreqElems}

FromDatasetInputs ==
    {<<DatasetObj, c, f, k, st, sf>> :
        c \in Columns, f \in FreqRanges, k \in {Omitted, PyInt(0), PyInt(1), PyStr("a")},
        st \in {Omitted, PyList(<<PyStr("a")>>), PyList(<<PyStr("a"), PyStr("a")>>)},
        sf \in {Omitted, PyInt(0)}}

InitFromDataset == InitCalls(Calls("check_from_dataset", FromDatasetInputs))

NextFromDataset == check_from_dataset \/ CallAgain

SpecFromDataset == InitFromDataset /\ [][NextFromDataset]_vars

(***************************************************************************)
(* check_from_list calls.                                                  *)
(***************************************************************************)
WordLists ==
    {PyList(w) : w \in SeqsUpTo({PyStr("a"), PyStr("b"), PyInt(1)}, MaxWords)}
        \cup {None, PyStr("a"), PyTuple(<<PyStr("a")>>)}

TokenLists ==
    {PyList(w) : w \in SeqsUpTo({PyStr("a"), PyStr("b"), PyStr("c"), PyInt(1)}, MaxTokens)}
        \cup {Omitted, None, PyStr("c")}

FromListInputs ==
    {<<w, st, sf>> : w \in WordLists, st \in TokenLists, sf \in {Omitted, PyBool(FALSE), PyInt(1)}}

InitFromList == InitCalls(Calls("check_from_list", FromListInputs))

NextFromList == check_from_list \/ CallAgain

SpecFromList == InitFromList /\ [][NextFromList]_vars

(***************************************************************************)
(* check_from_file calls.                                                  *)
(***************************************************************************)
VocabSizes ==
    {Omitted, None, PyBool(TRUE), PyStr("a")}
        \cup {PyFloat(Num(0), 1), PyFloat(Num(1), 0), PyFloat(Num(-2), 1), PyFloat(INT32_MAX, 1)}
        \cup {PyInt(i) : i \in (-1 - Slack)..(-1 + Slack)}
        \cup {PyBig(Plus(INT32_MAX, d)) : d \in (0 - Slack)..Slack}

FromFileInputs ==
    {<<f, d, vs, st, sf>> :
        f \in {PyStr("vocab.txt"), PyInt(1)}, d \in {Omitted, PyStr(","), None}, vs \in VocabSizes,
        st \in {Omitted, None, PyList(<<PyStr("a")>>), PyList(<<PyStr("a"), PyStr("a")>>), PyStr("a")},
        sf \in {Omitted, PyBool(FALSE), PyInt(1)}}

InitFromFile == InitCalls(Calls("check_from_file", FromFileInputs))

NextFromFile == check_from_file \/ CallAgain

SpecFromFile == InitFromFile /\ [][NextFromFile]_vars

(***************************************************************************)
(* Tokenizer calls: check_wordpiece_tokenizer, check_basic_tokenizer and   *)
(* check_bert_tokenizer over the same values.                              *)
(***************************************************************************)
Vocabs == {VocabObj, None, PyStr("a")}

Suffixes == {Omitted, PyStr("##"), PyInt(1)}

MaxBytes ==
    {Omitted, None, PyBool(TRUE), PyStr("a")}
        \cup {PyInt(i) : i \in (0 - Slack)..Slack}
        \cup {PyBig(Plus(UINT32_MAX, d)) : d \in (0 - Slack)..Slack}

UnknownTokens == {Omitted, PyStr("[UNK]"), None}

Flags == {Omitted, PyBool(TRUE), PyInt(1)}

Forms == {Omitted, PyInt(1)}

WordpieceInputs ==
    {<<v, s, m, u, w>> : v \in Vocabs, s \in Suffixes, m \in MaxBytes, u \in UnknownTokens, w \in Flags}

BasicInputs ==
    {<<l, k, nf, p, w>> : l \in Flags, k \in Flags, nf \in Forms, p \in Flags, w \in Flags}

BertInputs ==
    {<<v, s, m, u, l, k, nf, p, w>> :
        v \in Vocabs, s \in {Omitted, PyInt(1)}, m \in MaxBytes, u \in {PyStr("[UNK]"), None},
        l \in {PyBool(TRUE), PyInt(1)}, k \in {Omitted, PyInt(1)}, nf \in Forms,
        p \in {PyBool(FALSE), None}, w \in Flags}

InitTokenizers ==
    InitCalls(Calls("check_wordpiece_tokenizer", WordpieceInputs)
                \cup Calls("check_basic_tokenizer", BasicInputs)
                \cup Calls("check_bert_tokenizer", BertInputs))

NextTokenizers ==
    check_wordpiece_tokenizer \/ check_basic_tokenizer \/ check_bert_tokenizer \/ CallAgain

SpecTokenizers == InitTokenizers /\ [][NextTokenizers]_vars

(***************************************************************************)
(* Calls of all eighteen validators.                                       *)
(***************************************************************************)
Guards ==
    {"check_lookup", "check_from_file", "check_from_list", "check_from_dict", "check_from_dataset",
     "check_jieba_init", "check_jieba_add_word", "check_jieba_add_dict", "check_with_offsets",
     "check_unicode_script_tokenizer", "check_wordpiece_tokenizer", "check_regex_tokenizer",
     "check_basic_tokenizer", "check_bert_tokenizer", "check_ngram", "check_pair_truncate",
     "check_to_number", "check_python_tokenizer"}

Inputs(guard) ==
    CASE guard = "check_lookup" ->
            {<<v, u>> : v \in Vocabs \cup {Omitted}, u \in {Omitted, None, PyStr("<unk>"), PyInt(1)}}
      [] guard = "check_from_file" ->
            {<<PyStr("vocab.txt"), d, vs, st, sf>> :
                d \in {Omitted, None}, vs \in {Omitted, PyInt(-2), PyInt(-1)},
                st \in {Omitted, PyList(<<PyStr("a"), PyStr("a")>>)}, sf \in {Omitted, PyInt(1)}}
      [] guard = "check_from_list" ->
            {<<w, st, sf>> :
                w \in {None, PyList(<<PyStr("a")>>), PyList(<<PyStr("a"), PyStr("a")>>)},
                st \in {Omitted, None, PyList(<<PyStr("a")>>), PyList(<<PyStr("b")>>)},
                sf \in {Omitted, PyInt(1)}}
      [] guard = "check_from_dict" ->
            {<<d>> : d \in {Omitted, PyList(<<>>), PyDict(<<>>)}
                        \cup {PyDict(<<<<PyStr("a"), PyInt(0)>>, <<k, id>>>>) :
                                k \in {PyStr("b"), PyInt(1)},
                                id \in {PyInt(-1), PyInt(1), PyBool(TRUE), PyStr("x"),
                                        PyBig(INT32_MAX), PyBig(Plus(INT32_MAX, 1))}}}
      [] guard = "check_from_dataset" ->
            {<<ds, c, f, k, st, sf>> :
                ds \in {DatasetObj, Omitted},
                c \in {Omitted, PyStr("a"), PyInt(1), PyList(<<PyStr("a")>>), PyList(<<PyInt(1)>>)},
                f \in {Omitted, PyInt(1), PyTuple(<<PyInt(1), PyStr("a")>>), PyTuple(<<PyInt(2), PyInt(1)>>),
                       PyTuple(<<PyInt(1), PyInt(2)>>), PyTuple(<<PyInt(-1), None>>)},
                k \in {Omitted, PyInt(0), PyStr("a"), PyBool(TRUE)},
                st \in {Omitted, PyList(<<PyStr("a"), PyStr("a")>>)}, sf \in {Omitted, PyInt(0)}}
      [] guard = "check_jieba_init" ->
            {<<h, m, mode, w>> :
                h \in {Omitted, None, PyStr("hmm"), PyInt(1)}, m \in {Omitted, None, PyStr("mp"), PyInt(1)},
                mode \in {Omitted, Enum("MP")}, w \in Flags}
      [] guard = "check_jieba_add_word" ->
            {<<w, f>> :
                w \in {Omitted, None, PyStr("w"), PyInt(1)},
                f \in {Omitted, None, PyInt(-1), PyInt(0), PyBool(TRUE), PyStr("a"),
                       PyBig(UINT32_MAX), PyBig(Plus(UINT32_MAX, 1))}}
      [] guard = "check_jieba_add_dict" -> {<<d>> : d \in {Omitted, None, PyStr("dict.txt"), PyDict(<<>>)}}
      [] guard = "check_with_offsets" -> {<<w>> : w \in Flags \cup {None}}
      [] guard = "check_unicode_script_tokenizer" -> {<<k, w>> : k \in Flags, w \in Flags}
      [] guard = "check_wordpiece_tokenizer" ->
            {<<v, s, m, u, w>> :
                v \in Vocabs, s \in Suffixes, m \in {Omitted, PyInt(-1), PyInt(0), PyStr("a")},
                u \in {Omitted, None}, w \in Flags}
      [] guard = "check_regex_tokenizer" ->
            {<<d, k, w>> :
                d \in {Omitted, None, PyStr("\\s+"), PyInt(1)}, k \in {Omitted, PyStr("\\s+"), PyInt(1)},
                w \in Flags}
      [] guard = "check_basic_tokenizer" ->
            {<<l, k, nf, p, w>> :
                l \in Flags, k \in Flags, nf \in Forms, p \in {Omitted, None}, w \in {Omitted, PyInt(1)}}
      [] guard = "check_bert_tokenizer" ->
            {<<v, s, m, u, l, k, Omitted, p, w>> :
                v \in {VocabObj, None}, s \in {Omitted, PyInt(1)}, m \in {Omitted, PyInt(-1), PyStr("a")},
                u \in {Omitted, None}, l \in {Omitted, PyInt(1)}, k \in {Omitted, PyInt(1)},
                p \in {Omitted, None}, w \in {Omitted, PyStr("a")}}
      [] guard = "check_ngram" ->
            {<<n, l, r, sep>> :
                n \in {Omitted, PyInt(3), PyBool(TRUE), PyStr("a"), PyList(<<>>),
                       PyList(<<PyInt(1), PyInt(2)>>), PyList(<<PyInt(2), PyInt(0)>>)},
                l \in {Omitted, None, PyTuple(<<PyStr("<s>"), PyInt(2)>>), PyTuple(<<PyStr("<s>"), PyInt(-1)>>),
                       PyList(<<PyStr("<s>"), PyInt(1)>>)},
                r \in {Omitted, PyInt(1), PyTuple(<<PyStr("</s>"), PyInt(0)>>)},
                sep \in {Omitted, PyStr("-"), PyInt(1)}}
      [] guard = "check_pair_truncate" -> {<<m>> : m \in {Omitted, None, PyInt(1), PyStr("a")}}
      [] guard = "check_to_number" ->
            {<<d>> : d \in {Omitted, None, PyStr("int32"), MsType("int32"), MsType("float32"),
                            MsType("string"), MsType("bool")}}
      [] guard = "check_python_tokenizer" -> {<<f>> : f \in {Omitted, None, Function, PyInt(1), PyStr("split")}}

Init == InitCalls(UNION {Calls(g, Inputs(g)) : g \in Guards})

Next ==
    \/ check_lookup
    \/ check_from_file
    \/ check_from_list
    \/ check_from_dict
    \/ check_from_dataset
    \/ check_jieba_init
    \/ check_jieba_add_word
    \/ check_jieba_add_dict
    \/ check_with_offsets
    \/ check_unicode_script_tokenizer
    \/ check_wordpiece_tokenizer
    \/ check_regex_tokenizer
    \/ check_basic_tokenizer
    \/ check_bert_tokenizer
    \/ check_ngram
    \/ check_pair_truncate
    \/ check_to_number
    \/ check_python_tokenizer
    \/ CallAgain

Spec == Init /\ [][Next]_vars

(***************************************************************************)
(* Reading a returned call.                                                *)
(***************************************************************************)
Returned(guard) == pc = "returned" /\ op = guard

Passed == raised.kind = "ok"

\* The call's arguments bind to the parameters.
Binds == parse_user_args(Sig(op), args, kwargs).ok

\* The value bound to the i-th parameter of the call (Omitted when the call
\* does not bind).
Bound(i) == IF Binds THEN parse_user_args(Sig(op), args, kwargs).vals[i] ELSE Omitted

\* An int that is no bool.
PlainInt(x) == x.t = "int"

IsText(x) == x.t = "str"

(***************************************************************************)
(* C4, C5: check_ngram.                                                    *)
(***************************************************************************)
\* n as the claim accepts it: a positive int or a non-empty list of positive ints.
NgramNAccepted(n) ==
    \/ PlainInt(n) /\ Less(Num(0), n.v)
    \/ /\ n.t = "list"
       /\ Len(n.v) > 0
       /\ \A i \in 1..Len(n.v) : PlainInt(n.v[i]) /\ Less(Num(0), n.v[i].v)

\* A pad as the claim accepts it: a 2-tuple (text, integer >= 0).  The width is
\* an integer in Python's sense, isinstance(width, int), which holds of a bool.
PadAccepted(p) ==
    /\ p.t = "tuple"
    /\ Len(p.v) = 2
    /\ IsText(p.v[1])
    /\ p.v[2].t \in {"int", "bool"}
    /\ ~Less(p.v[2].v, Num(0))

C5_NgramForwardsNormalizedBundle ==
    /\ Returned("check_ngram") /\ round = 1 => Passed
    /\ Returned("check_ngram") /\ Passed =>
        /\ calls = 1
        /\ recv.args = <<>>
        /\ Len(recv.kwargs) = 4
        /\ Keys(recv.kwargs) = {"n", "left_pad", "right_pad", "separator"}
        /\ Get(recv.kwargs, "n") = IF Bound(1).t = "list" THEN Bound(1) ELSE PyList(<<Bound(1)>>)
        /\ Get(recv.kwargs, "n").t = "list"
        /\ Get(recv.kwargs, "left_pad") = Bound(2)
        /\ Get(recv.kwargs, "right_pad") = Bound(3)
        /\ Get(recv.kwargs, "separator") = Bound(4)
        /\ round = 1 => recv = first

C5_Witness ==
    /\ Returned("check_ngram")
    /\ round = 1
    /\ Passed
    /\ recv = first
    /\ Get(recv.kwargs, "n") = PyList(<<PyInt(3)>>)
    /\ Len(first.kwargs) = 4

(***************************************************************************)
(* C1: validation completes before the wrapped method is reached.          *)
(***************************************************************************)
\* The arguments of check_wordpiece_tokenizer as its table row accepts them.
WordpieceAccepted(vocab, suffix_indicator, max_bytes_per_token, unknown_token, with_offsets) ==
    /\ vocab.t = "Vocab"
    /\ IsText(suffix_indicator)
    /\ PlainInt(max_bytes_per_token)
    /\ ~Less(max_bytes_per_token.v, Num(0))
    /\ ~Less(UINT32_MAX, max_bytes_per_token.v)
    /\ IsText(unknown_token)
    /\ with_offsets.t = "bool"

\* C1: in every call of every validator the wrapped method runs at most once;
\* it has not run while validation is pending; after the call it has run once
\* exactly when neither binding nor a predicate raised, and not at all when
\* one of them raised.  For the two validators the claim cites, a run of the
\* wrapped method implies that the arguments are valid.
C1_WrappedRunsOnceAfterValidation ==
    /\ calls \in {0, 1}
    /\ pc = "called" => calls = 0 /\ recv = NoCall
    /\ pc = "returned" =>
        /\ calls = 1 <=> Passed
        /\ ~Binds => calls = 0 /\ raised = BindError
        /\ raised.kind \in {"TypeError", "ValueError"} => calls = 0 /\ recv = NoCall
        /\ calls = 1 /\ op = "check_wordpiece_tokenizer" =>
              WordpieceAccepted(Bound(1), Bound(2), Bound(3), Bound(4), Bound(5))
        /\ calls = 1 /\ op = "check_ngram" =>
              NgramNAccepted(Bound(1)) /\ PadAccepted(Bound(2)) /\ PadAccepted(Bound(3)) /\ IsText(Bound(4))

C1_Witness ==
    /\ Returned("check_wordpiece_tokenizer")
    /\ Passed
    /\ calls = 1
    /\ Bound(3) = PyInt(0)
    /\ recv.args # <<>>

\* A call whose validation raised: the wrapped method did not run.
C1_WitnessRaised ==
    /\ Returned("check_ngram")
    /\ raised.kind = "ValueError"
    /\ calls = 0

(***************************************************************************)
(* C2, C3: check_from_dataset.                                             *)
(***************************************************************************)
IntOrNone(x) == x = None \/ x.t \in {"int", "bool"}

\* freq_range as the claim accepts it: a 2-tuple of None or integers, low >= 0
\* whenever low is given, low <= high whenever both are given.
FreqRangeAccepted(f) ==
    /\ f.t = "tuple"
    /\ Len(f.v) = 2
    /\ IntOrNone(f.v[1])
    /\ IntOrNone(f.v[2])
    /\ f.v[1] # None => ~Less(f.v[1].v, Num(0))
    /\ f.v[1] # None /\ f.v[2] # None => ~Less(f.v[2].v, f.v[1].v)

\* C2: check_from_dataset accepts a freq_range other than None only if it is a
\* 2-tuple of None or integers with low >= 0 whenever low is given and
\* low <= high whenever both are given, for every freq_range, (-1, None) included.
C2_FreqRangeAcceptedOnlyIfValid ==
    Returned("check_from_dataset") /\ Binds /\ Passed /\ Bound(3) # None => FreqRangeAccepted(Bound(3))

\* C2, the examples of the claim: (5, 2) and (-1, 5) raise ValueError; and the
\* check that the code does make: a 2-tuple of two integers passes only with
\* 0 <= low <= high.
C2_TwoIntegerRangesChecked ==
    Returned("check_from_dataset") /\ Binds =>
        /\ Bound(3) \in {PyTuple(<<PyInt(5), PyInt(2)>>), PyTuple(<<PyInt(-1), PyInt(5)>>)} /\ Bound(2) = None
              => raised.kind = "ValueError"
        /\ Passed /\ Bound(3) # None /\ Bound(3).v[1] # None /\ Bound(3).v[2] # None
              => FreqRangeAccepted(Bound(3))

\* columns holds an element that is no text: a scalar that is no text, or a
\* list with such an element.
ColumnsHoldNonText(c) ==
    IF c.t = "list" THEN \E i \in 1..Len(c.v) : ~IsText(c.v[i]) ELSE ~IsText(c)

\* C3: for every columns other than None, scalar or list, that holds an element
\* that is no text, check_from_dataset raises and the wrapped method does not run.
C3_NonTextColumnsRejected ==
    Returned("check_from_dataset") /\ Binds /\ Bound(2) # None /\ ColumnsHoldNonText(Bound(2)) =>
        ~Passed /\ calls = 0

\* C3, the check the code does make: a scalar columns that is no text raises TypeError.
C3_ScalarColumnsChecked ==
    Returned("check_from_dataset") /\ Binds /\ Bound(2) # None /\ Bound(2).t # "list" /\ ~IsText(Bound(2)) =>
        raised.kind = "TypeError" /\ calls = 0

(***************************************************************************)
(* C6: check_from_list.                                                    *)
(***************************************************************************)
ListOfText(x) == x.t = "list" /\ \A i \in 1..Len(x.v) : IsText(x.v[i])

NoDuplicates(x) == \A i, j \in 1..Len(x.v) : i # j => x.v[i] # x.v[j]

Words(x) == {x.v[i].v : i \in 1..Len(x.v)}

\* The first word of x that an earlier element equals.
FirstDuplicate(x) ==
    LET i == CHOOSE k \in 1..Len(x.v) :
                /\ \E j \in 1..(k - 1) : x.v[j] = x.v[k]
                /\ \A m \in 1..(k - 1) : \A j \in 1..(m - 1) : x.v[j] # x.v[m]
    IN  x.v[i].v

\* C6: check_from_list passes only if word_list is a list of text without
\* duplicates, special_tokens (when not None) is a list of text without
\* duplicates, and the two share no word.  A duplicate in a word_list of text
\* raises a ValueError that names the duplicated word; a shared word raises a
\* ValueError that lists exactly the intersection.
C6_FromListUniqueAndDisjoint ==
    Returned("check_from_list") /\ Binds =>
        /\ Passed =>
            /\ ListOfText(Bound(1)) /\ NoDuplicates(Bound(1))
            /\ Bound(2) # None =>
                /\ ListOfText(Bound(2)) /\ NoDuplicates(Bound(2))
                /\ Words(Bound(1)) \cap Words(Bound(2)) = {}
        /\ ListOfText(Bound(1)) /\ ~NoDuplicates(Bound(1)) =>
              raised = ValueErrorWords("word_list", {FirstDuplicate(Bound(1))})
        /\ /\ ListOfText(Bound(1)) /\ NoDuplicates(Bound(1))
           /\ ListOfText(Bound(2)) /\ NoDuplicates(Bound(2))
           /\ Words(Bound(1)) \cap Words(Bound(2)) # {}
           => /\ raised.kind = "ValueError"
              /\ raised.detail = Words(Bound(1)) \cap Words(Bound(2))
              /\ calls = 0

C6_Witness ==
    /\ Returned("check_from_list")
    /\ Bound(1) = PyList(<<PyStr("a"), PyStr("b")>>)
    /\ Bound(2) = PyList(<<PyStr("b"), PyStr("c")>>)
    /\ raised.kind = "ValueError"
    /\ raised.detail = {"b"}

(***************************************************************************)
(* C7: check_from_file.                                                    *)
(***************************************************************************)
\* The arguments of check_from_file other than vocab_size are valid.
FromFileOthersValid ==
    /\ IsText(Bound(1))
    /\ IsText(Bound(2))
    /\ Bound(4) = None \/ (ListOfText(Bound(4)) /\ NoDuplicates(Bound(4)))
    /\ Bound(5).t = "bool"

\* An integer in [-1, INT32_MAX].
InVocabRange(x) == PlainInt(x) /\ ~Less(x.v, Num(-1)) /\ ~Less(INT32_MAX, x.v)

\* C7: check_from_file accepts a vocab_size other than None only if it is an
\* integer in [-1, INT32_MAX].  With the other arguments valid, -2 and
\* INT32_MAX + 1 raise ValueError, -1 and INT32_MAX pass, and None passes
\* without a range check.
C7_VocabSizeRange ==
    Returned("check_from_file") /\ Binds =>
        /\ Passed /\ Bound(3) # None => InVocabRange(Bound(3))
        /\ FromFileOthersValid =>
            /\ Bound(3) \in {PyInt(-2), PyBig(Plus(INT32_MAX, 1))} =>
                  raised.kind = "ValueError" /\ raised.arg = "vocab_size"
            /\ Bound(3) \in {PyInt(-1), PyBig(INT32_MAX), None} => Passed /\ calls = 1

\* What check_from_file does with vocab_size: the range is tested on any
\* number, so a vocab_size of int type passes exactly in [-1, INT32_MAX], the
\* endpoints behave as stated, and a float or a bool inside the range passes.
C7_RangeTestedWithoutType ==
    Returned("check_from_file") /\ Binds /\ FromFileOthersValid =>
        /\ PlainInt(Bound(3)) => (Passed <=> InVocabRange(Bound(3)))
        /\ Bound(3) \in {PyInt(-2), PyBig(Plus(INT32_MAX, 1))} =>
              raised.kind = "ValueError" /\ raised.arg = "vocab_size"
        /\ Bound(3) \in {PyInt(-1), PyBig(INT32_MAX), None} => Passed /\ calls = 1
        /\ Bound(3) \in {PyFloat(Num(0), 1), PyFloat(Num(1), 0), PyBool(TRUE)} => Passed /\ calls = 1
        /\ Bound(3) \in {PyFloat(Num(-2), 1), PyFloat(INT32_MAX, 1)} => raised.kind = "ValueError"
        /\ Bound(3) = PyStr("a") => raised.kind = "TypeError"

\* vocab_size = 0.5 with the other arguments valid: the wrapped method runs.
C7_FloatPasses ==
    /\ Returned("check_from_file")
    /\ FromFileOthersValid
    /\ Bound(3) = PyFloat(Num(0), 1)
    /\ Passed
    /\ calls = 1

C7_Witness ==
    /\ Returned("check_from_file")
    /\ FromFileOthersValid
    /\ Bound(3) = PyBig(Plus(INT32_MAX, 1))
    /\ raised.kind = "ValueError"

\* The upper end of the range passes.
C7_WitnessMax ==
    /\ Returned("check_from_file")
    /\ Bound(3) = PyBig(INT32_MAX)
    /\ Passed

(***************************************************************************)
(* C8: the kind of the exception.                                          *)
(***************************************************************************)
\* C8: an argument of the wrong runtime type raises TypeError and an argument
\* of the right type with a disallowed value raises ValueError: an element of
\* freq_range that is neither None nor an integer, an n that is neither int nor
\* list and a pad that is no tuple raise TypeError; a data_type that is a type
\* object but no number type raises ValueError.
C8_ViolationKindMatchesDefect ==
    pc = "returned" /\ Binds =>
        /\ /\ op = "check_from_dataset"
           /\ Bound(2) = None \/ IsText(Bound(2)) \/ Bound(2).t = "list"
           /\ Bound(3).t = "tuple"
           /\ Len(Bound(3).v) = 2
           /\ \E i \in 1..2 : ~IntOrNone(Bound(3).v[i])
           => raised.kind = "TypeError"
        /\ op = "check_ngram" /\ Bound(1).t \notin {"int", "bool", "list"} => raised.kind = "TypeError"
        /\ op = "check_ngram" /\ NgramNAccepted(Bound(1)) /\ Bound(2).t # "tuple" => raised.kind = "TypeError"
        /\ op = "check_to_number" /\ Bound(1).t = "Type" /\ Bound(1) \notin number_type =>
              raised.kind = "ValueError"

\* C8, the cases in which the code does follow the convention: a scalar columns,
\* a top_k or a separator of the wrong type raises TypeError, a gram or a top_k
\* that is an int but not positive raises ValueError.
C8_KindsOfTheHelpers ==
    pc = "returned" /\ Binds =>
        /\ op = "check_from_dataset" /\ Bound(2).t \notin {"NoneType", "str", "list"} => raised.kind = "TypeError"
        /\ op = "check_ngram" /\ Bound(1) = PyList(<<PyInt(2), PyInt(0)>>) => raised.kind = "ValueError"
        /\ op = "check_to_number" /\ Bound(1).t # "Type" => raised.kind = "TypeError"

(***************************************************************************)
(* C9: the arguments the wrapped method receives.                          *)
(***************************************************************************)
\* The value the wrapped method receives for its i-th parameter.
Received(i) ==
    LET got == parse_user_args(Sig(op), recv.args, recv.kwargs)
    IN  IF got.ok THEN got.vals[i] ELSE Omitted

\* C9: a validator other than check_ngram that passes calls the wrapped method
\* once with the positional and keyword arguments of the caller, equal in value
\* and order; a scalar columns of check_from_dataset arrives as the scalar.
C9_ArgumentsForwardedVerbatim ==
    pc = "returned" /\ op # "check_ngram" /\ Passed =>
        /\ calls = 1
        /\ recv.args = args
        /\ recv.kwargs = kwargs
        /\ op = "check_from_dataset" => Received(2) = Bound(2)

C9_Witness ==
    /\ Returned("check_from_dataset")
    /\ Passed
    /\ Bound(2) = PyStr("a")
    /\ from_dataset_columns(Bound(2)) = PyList(<<PyStr("a")>>)
    /\ Received(2) = PyStr("a")
    /\ Len(recv.args) = 1
    /\ Len(recv.kwargs) > 1

(***************************************************************************)
(* C10: check_bert_tokenizer against check_wordpiece_tokenizer and         *)
(* check_basic_tokenizer.                                                  *)
(***************************************************************************)
\* The arguments of check_basic_tokenizer as its table row accepts them.
BasicAccepted(lower_case, keep_whitespace, preserve_unused_token, with_offsets) ==
    /\ lower_case.t = "bool"
    /\ keep_whitespace.t = "bool"
    /\ preserve_unused_token.t = "bool"
    /\ with_offsets.t = "bool"

\* The projections of a check_bert_tokenizer bundle.
WordpieceProjection == <<Bound(1), Bound(2), Bound(3), Bound(4), Bound(9)>>

BasicProjection == <<Bound(5), Bound(6), Bound(7), Bound(8), Bound(9)>>

\* C10 as stated: check_bert_tokenizer passes exactly when check_wordpiece_tokenizer
\* and check_basic_tokenizer pass on their projections, and in all three a
\* max_bytes_per_token of -1 is rejected and (the rest being valid) 0 passes.
C10_MinusOneRejectedInAllThree ==
    Returned("check_bert_tokenizer") /\ Binds =>
        /\ Passed <=> /\ wordpiece_tokenizer_predicates(WordpieceProjection) = Ok
                      /\ basic_tokenizer_predicates(BasicProjection) = Ok
        /\ Bound(3) = PyInt(-1) =>
            /\ ~Passed
            /\ wordpiece_tokenizer_predicates(WordpieceProjection) # Ok
            /\ basic_tokenizer_predicates(BasicProjection) # Ok
        /\ /\ Bound(3) = PyInt(0)
           /\ WordpieceAccepted(Bound(1), Bound(2), Bound(3), Bound(4), Bound(9))
           /\ BasicAccepted(Bound(5), Bound(6), Bound(8), Bound(9))
           => /\ Passed
              /\ wordpiece_tokenizer_predicates(WordpieceProjection) = Ok
              /\ basic_tokenizer_predicates(BasicProjection) = Ok

\* C10, amended: check_bert_tokenizer passes exactly when check_wordpiece_tokenizer
\* passes on (vocab, suffix_indicator, max_bytes_per_token, unknown_token,
\* with_offsets) and check_basic_tokenizer passes on (lower_case,
\* keep_whitespace, normalization_form, preserve_unused_token, with_offsets);
\* each of the two passes exactly on the arguments its row of the table allows;
\* in check_bert_tokenizer and check_wordpiece_tokenizer max_bytes_per_token = -1
\* raises, and, the rest being valid, 0 passes in all three;
\* check_basic_tokenizer, which has no max_bytes_per_token, decides on the four
\* flags alone.
C10_BertIsWordpieceAndBasic ==
    pc = "returned" /\ Binds =>
        /\ op = "check_bert_tokenizer" =>
            /\ Passed <=>
                /\ wordpiece_tokenizer_predicates(WordpieceProjection) = Ok
                /\ basic_tokenizer_predicates(BasicProjection) = Ok
            /\ Passed <=>
                /\ WordpieceAccepted(Bound(1), Bound(2), Bound(3), Bound(4), Bound(9))
                /\ BasicAccepted(Bound(5), Bound(6), Bound(8), Bound(9))
            /\ Bound(3) = PyInt(-1) =>
                /\ ~Passed /\ calls = 0
                /\ wordpiece_tokenizer_predicates(WordpieceProjection) # Ok
                /\ basic_tokenizer_predicates(BasicProjection) = Ok
                      <=> BasicAccepted(Bound(5), Bound(6), Bound(8), Bound(9))
            /\ Bound(3) = PyInt(0) /\ Passed =>
                /\ wordpiece_tokenizer_predicates(WordpieceProjection) = Ok
                /\ basic_tokenizer_predicates(BasicProjection) = Ok
        /\ op = "check_wordpiece_tokenizer" =>
            /\ Passed <=> WordpieceAccepted(Bound(1), Bound(2), Bound(3), Bound(4), Bound(5))
            /\ Bound(3) = PyInt(-1) => ~Passed /\ calls = 0
        /\ op = "check_basic_tokenizer" =>
              (Passed <=> BasicAccepted(Bound(1), Bound(2), Bound(4), Bound(5)))

C10_Witness ==
    /\ Returned("check_bert_tokenizer")
    /\ Passed
    /\ Bound(3) = PyInt(0)
    /\ calls = 1

\* max_bytes_per_token = -1 with everything else valid: ValueError.
C10_WitnessNegative ==
    /\ Returned("check_bert_tokenizer")
    /\ Bound(3) = PyInt(-1)
    /\ WordpieceAccepted(Bound(1), Bound(2), PyInt(0), Bound(4), Bound(9))
    /\ BasicAccepted(Bound(5), Bound(6), Bound(8), Bound(9))
    /\ raised.kind = "ValueError"

====
